---- MODULE Spec2Model ----
(***************************************************************************)
(* A model of guessing_number_game.py: a console guessing game.  The       *)
(* script is sequential; its control state is the variable pc, one value   *)
(* per place where the script blocks on input() or stands between two      *)
(* blocks of the main flow.  Text is modelled as sequences of one-         *)
(* character strings so that strip(), lower() and int() are computed.      *)
(* Emoji of the printed lines and of the reason string are left out; the   *)
(* block character of the progress bar is written "#".                     *)
(***************************************************************************)
EXTENDS Integers, Sequences, FiniteSets, TLC

\* Bounds of the calls of show_status made on their own (StatusSpec): the
\* largest streak and the largest score and total_attempts handed to it.
MaxStreak == 7

MaxCount == 2

\* Bound of the model: the count of invalid lines read in a row at one
\* prompt stops at MaxRetries; the prompt itself is repeated without limit.
MaxRetries == 1

----------------------------------------------------------------------------
\* Text helpers (Python str methods and int()).

WHITESPACE == {" ", "\t"}

UPPER == <<"A","B","C","D","E","F","G","H","I","J","K","L","M",
           "N","O","P","Q","R","S","T","U","V","W","X","Y","Z">>

LOWER == <<"a","b","c","d","e","f","g","h","i","j","k","l","m",
           "n","o","p","q","r","s","t","u","v","w","x","y","z">>

DIGITS == <<"0","1","2","3","4","5","6","7","8","9">>

\* str.strip(): drop the leading and the trailing whitespace.
RECURSIVE lstrip(_)
lstrip(s) ==
    IF s # <<>> /\ Head(s) \in WHITESPACE THEN lstrip(Tail(s)) ELSE s

RECURSIVE rstrip(_)
rstrip(s) ==
    IF s # <<>> /\ s[Len(s)] \in WHITESPACE
    THEN rstrip(SubSeq(s, 1, Len(s) - 1))
    ELSE s

strip(s) == rstrip(lstrip(s))

\* str.lower(): every upper-case letter becomes its lower-case letter.
lower_char(c) ==
    IF \E i \in 1..Len(UPPER) : UPPER[i] = c
    THEN LOWER[CHOOSE i \in 1..Len(UPPER) : UPPER[i] = c]
    ELSE c

lower(s) == [i \in 1..Len(s) |-> lower_char(s[i])]

IsDigit(c) == \E i \in 1..Len(DIGITS) : DIGITS[i] = c

DigitValue(c) == (CHOOSE i \in 1..Len(DIGITS) : DIGITS[i] = c) - 1

\* The value of a non-empty sequence of decimal digits.
RECURSIVE DigitsValue(_)
DigitsValue(s) ==
    IF s = <<>> THEN 0
    ELSE 10 * DigitsValue(SubSeq(s, 1, Len(s) - 1)) + DigitValue(s[Len(s)])

\* int(text): surrounding whitespace is ignored, one sign is allowed, then
\* decimal digits; anything else raises ValueError (ok = FALSE).  Python
\* also takes "_" between digits; no line of GuessLines has one.
int(text) ==
    LET t    == strip(text)
        neg  == t # <<>> /\ Head(t) = "-"
        sgn  == t # <<>> /\ Head(t) \in {"+", "-"}
        body == IF sgn THEN Tail(t) ELSE t
    IN  IF body # <<>> /\ \A i \in 1..Len(body) : IsDigit(body[i])
        THEN [ok |-> TRUE,
              val |-> IF neg THEN 0 - DigitsValue(body) ELSE DigitsValue(body)]
        ELSE [ok |-> FALSE, val |-> 0]

\* str(n) for n >= 0, as in an f-string.
RECURSIVE str(_)
str(n) ==
    IF n < 10 THEN <<DIGITS[n + 1]>>
    ELSE str(n \div 10) \o <<DIGITS[(n % 10) + 1]>>

\* "c" * n
RECURSIVE Repeat(_, _)
Repeat(c, n) == IF n <= 0 THEN <<>> ELSE <<c>> \o Repeat(c, n - 1)

Min(a, b) == IF a < b THEN a ELSE b

----------------------------------------------------------------------------
\* The lines the player may type.

YES == <<"y","e","s">>

NO == <<"n","o">>

YesNoLines ==
    { YES, NO,
      <<" ","Y","E","S"," ">>, <<"N","o","\t">>,
      <<"y">>, <<>>, <<"y","e","s","s">>, <<"n"," ","o">> }

GuessLines ==
    { <<"1">>, <<"2">>, <<"3">>, <<"4">>, <<"5">>, <<"6">>, <<"7">>,
      <<"8">>, <<"9">>, <<"1","0">>,
      <<" ","7"," ">>, <<"+","3">>,
      <<"0">>, <<"1","1">>, <<"-","2">>,
      <<>>, <<"a","b">>, <<"3",".","5">> }

----------------------------------------------------------------------------
\* Printed lines: a tag for the message, the numbers it shows and, for the
\* streak line, the text of the bar.

Line(msg, a, b, bar) == [msg |-> msg, a |-> a, b |-> b, bar |-> bar]

Msg(m) == Line(m, 0, 0, <<>>)

\* One pass of the loop of get_yes_no on the line read.
get_yes_no(line) ==
    LET ans == lower(strip(line))
    IN  IF ans \in {YES, NO}
        THEN [returns |-> TRUE, value |-> ans, printed |-> <<>>]
        ELSE [returns |-> FALSE, value |-> <<>>,
              printed |-> <<Msg("invalid_choice")>>]

\* Mutant of get_user_guess: the bounds of the range change places.
get_user_guess_empty_range(line) ==
    LET r == int(line)
    IN  IF r.ok
        THEN IF 10 <= r.val /\ r.val <= 1
             THEN [returns |-> TRUE, value |-> r.val, printed |-> <<>>]
             ELSE [returns |-> FALSE, value |-> 0,
                   printed |-> <<Msg("enter_1_to_10")>>]
        ELSE [returns |-> FALSE, value |-> 0,
              printed |-> <<Msg("enter_a_number")>>]

\* Mutant of get_user_guess: the range starts at 0.
get_user_guess_from_zero(line) ==
    LET r == int(line)
    IN  IF r.ok
        THEN IF 0 <= r.val /\ r.val <= 10
             THEN [returns |-> TRUE, value |-> r.val, printed |-> <<>>]
             ELSE [returns |-> FALSE, value |-> 0,
                   printed |-> <<Msg("enter_1_to_10")>>]
        ELSE [returns |-> FALSE, value |-> 0,
              printed |-> <<Msg("enter_a_number")>>]

\* One pass of the loop of get_user_guess on the line read.
get_user_guess(line) ==
    LET r == int(line)
    IN  IF r.ok
        THEN IF 1 <= r.val /\ r.val <= 10
             THEN [returns |-> TRUE, value |-> r.val, printed |-> <<>>]
             ELSE [returns |-> FALSE, value |-> 0,
                   printed |-> <<Msg("enter_1_to_10")>>]
        ELSE [returns |-> FALSE, value |-> 0,
              printed |-> <<Msg("enter_a_number")>>]

\* Mutant of progress_bar: min() is missing.
progress_bar_unclamped(streak, max_streak, length) ==
    LET filled == (streak * length) \div max_streak
        bar    == Repeat("#", filled) \o Repeat("-", length - filled)
    IN  <<"[">> \o bar \o <<"]", " ">> \o str(streak) \o <<"/">>
        \o str(max_streak)

\* progress = min(streak, max_streak) / max_streak; filled = int(progress *
\* length).  The quotient is a float in the source; for the arguments the
\* program uses (max_streak 5, length 10) the product is exact, so it is
\* computed here in integers.
progress_bar(streak, max_streak, length) ==
    LET filled == (Min(streak, max_streak) * length) \div max_streak
        bar    == Repeat("#", filled) \o Repeat("-", length - filled)
    IN  <<"[">> \o bar \o <<"]", " ">> \o str(streak) \o <<"/">>
        \o str(max_streak)

\* dict.get(key, default)
Get(info, key, default) ==
    IF key \in DOMAIN info THEN info[key] ELSE default

StreakLine(info) ==
    Line("streak_progress", Get(info, "win_streak", 0), 5,
         progress_bar(Get(info, "win_streak", 0), 5, 10))

FinalScoreLine(info) ==
    Line("final_score", Get(info, "score", 0), Get(info, "total_attempts", 0),
         <<>>)

\* show_status, final and reason "win5" (lines 112-116).
show_win5(info) ==
    << Msg("congratulations"), FinalScoreLine(info), Msg("champion") >>

\* Mutant of show_lost: the test of the streak is turned around.
show_lost_streak_flipped(info) ==
    << Msg("game_over"), FinalScoreLine(info) >>
    \o (IF Get(info, "win_streak", 0) >= 5 THEN <<StreakLine(info)>> ELSE <<>>)
    \o << Msg("better_luck") >>

\* show_status, final and reason "lost" (lines 118-124).
show_lost(info) ==
    << Msg("game_over"), FinalScoreLine(info) >>
    \o (IF Get(info, "win_streak", 0) < 5 THEN <<StreakLine(info)>> ELSE <<>>)
    \o << Msg("better_luck") >>

\* Mutant of show_exit: the test of total_attempts is missing.
show_exit_unguarded(info) ==
    << Msg("exited"), FinalScoreLine(info) >>
    \o (IF Get(info, "win_streak", 0) < 5 THEN <<StreakLine(info)>> ELSE <<>>)

\* Mutant of show_exit: the test of the streak is turned around.
show_exit_streak_flipped(info) ==
    << Msg("exited") >>
    \o (IF Get(info, "total_attempts", 0) > 0
        THEN <<FinalScoreLine(info)>>
             \o (IF Get(info, "win_streak", 0) >= 5
                 THEN <<StreakLine(info)>> ELSE <<>>)
        ELSE <<>>)

\* show_status, final and reason "exit" (lines 126-132).
show_exit(info) ==
    << Msg("exited") >>
    \o (IF Get(info, "total_attempts", 0) > 0
        THEN <<FinalScoreLine(info)>>
             \o (IF Get(info, "win_streak", 0) < 5
                 THEN <<StreakLine(info)>> ELSE <<>>)
        ELSE <<>>)

\* show_status, not final (lines 134-137).
show_ongoing(info) ==
    << Line("score_so_far", Get(info, "score", 0), 0, <<>>), StreakLine(info) >>

\* show_status(info): the lines it prints.
show_status(info) ==
    IF Get(info, "final", FALSE)
    THEN LET reason == Get(info, "reason", "exit")
         IN  IF reason = "win5" THEN show_win5(info)
             ELSE IF reason = "lost" THEN show_lost(info)
             ELSE IF reason = "exit" THEN show_exit(info)
             ELSE <<>>
    ELSE show_ongoing(info)

----------------------------------------------------------------------------
\* The steps of the main flow as functions of the values they read.

\* Mutant of count_attempt: the global counter is not incremented.
count_attempt_round_only(s) ==
    [s EXCEPT !.attempts_in_round = @ + 1]

\* Mutant of count_attempt: the round's counter is not incremented.
count_attempt_total_only(s) ==
    [s EXCEPT !.total_attempts = @ + 1]

\* Lines 154-155: a valid guess is counted.  s holds the counters.
count_attempt(s) ==
    [s EXCEPT !.attempts_in_round = @ + 1, !.total_attempts = @ + 1]

\* Mutant of on_correct: the streak is not incremented.
on_correct_no_streak(s) ==
    [s EXCEPT !.score = @ + 1, !.guessed = TRUE]

\* Mutant of on_correct: the score is not incremented.
on_correct_no_score(s) ==
    [s EXCEPT !.win_streak = @ + 1, !.guessed = TRUE]

\* Lines 159-161: a correct guess.
on_correct(s) ==
    [s EXCEPT !.score = @ + 1, !.win_streak = @ + 1, !.guessed = TRUE]

\* Mutant of ongoing_info: the values from before the increments.
ongoing_info_stale(sc, streak) ==
    [score |-> sc - 1, win_streak |-> streak - 1]

\* Lines 163-166: the dictionary handed to show_status after a correct
\* guess.
ongoing_info(sc, streak) == [score |-> sc, win_streak |-> streak]

\* Mutant of loop_continues: range(4).
loop_continues_four(passes) == passes < 4

\* Line 152: "for _ in range(3)" has another pass after `passes` passes.
loop_continues(passes) == passes < 3

\* Mutant of hint: the comparison is turned around.
hint_flipped(g, n) == IF g > n THEN "higher" ELSE "lower"

\* Line 170: the hint after a wrong guess.
hint(g, n) == IF g < n THEN "higher" ELSE "lower"

\* Mutant of after_round: the streak is compared with > instead of >=.
after_round_strict(g, n, streak, reason) ==
    IF ~g
    THEN [win_streak |-> 0, game_over_reason |-> "lost", pc |-> "final",
          out |-> << Line("out_of_tries", n, 0, <<>>) >>]
    ELSE IF streak > 5
    THEN [win_streak |-> streak,
          game_over_reason |-> "5 consecutive wins achieved",
          pc |-> "final", out |-> <<>>]
    ELSE [win_streak |-> streak, game_over_reason |-> reason,
          pc |-> "ask_again", out |-> <<>>]

\* Mutant of after_round: the break of the lost branch is missing.
after_round_no_break(g, n, streak, reason) ==
    IF ~g
    THEN [win_streak |-> 0, game_over_reason |-> "lost", pc |-> "ask_again",
          out |-> << Line("out_of_tries", n, 0, <<>>) >>]
    ELSE IF streak >= 5
    THEN [win_streak |-> streak,
          game_over_reason |-> "5 consecutive wins achieved",
          pc |-> "final", out |-> <<>>]
    ELSE [win_streak |-> streak, game_over_reason |-> reason,
          pc |-> "ask_again", out |-> <<>>]

\* Lines 172-182: what follows the attempt loop.  Gives the new streak and
\* reason, the lines printed and where the script goes next.
after_round(g, n, streak, reason) ==
    IF ~g
    THEN [win_streak |-> 0, game_over_reason |-> "lost", pc |-> "final",
          out |-> << Line("out_of_tries", n, 0, <<>>) >>]
    ELSE IF streak >= 5
    THEN [win_streak |-> streak,
          game_over_reason |-> "5 consecutive wins achieved",
          pc |-> "final", out |-> <<>>]
    ELSE [win_streak |-> streak, game_over_reason |-> reason,
          pc |-> "ask_again", out |-> <<>>]

\* Mutant of final_info: score and total_attempts change places.
final_info_swapped(reason, sc, attempts, streak) ==
    [final |-> TRUE, reason |-> reason, score |-> attempts,
     total_attempts |-> sc, win_streak |-> streak]

\* Lines 190-196: the dictionary handed to the final show_status call.
final_info(reason, sc, attempts, streak) ==
    [final |-> TRUE, reason |-> reason, score |-> sc,
     total_attempts |-> attempts, win_streak |-> streak]

\* The test of "while play_game == 'yes'" (line 146).
while_test(answer) == IF answer = YES THEN "round_start" ELSE "final"

\* What the validators answer to each line of the model.
YesNoTable == [line \in YesNoLines |-> get_yes_no(line)]

GuessTable == [line \in GuessLines |-> get_user_guess(line)]

----------------------------------------------------------------------------
\* The state of the script.

VARIABLES
    pc,                 \* where the script stands
    score,              \* global: correct guesses
    total_attempts,     \* global: guesses across all rounds
    win_streak,         \* global: consecutive round wins
    play_game,          \* last answer to a play prompt
    game_over_reason,   \* reason handed to the final report
    number,             \* the round's target
    attempts_in_round,  \* guesses made in the round
    guessed,            \* whether the round's target was guessed
    tries,              \* passes of "for _ in range(3)" begun in the round
    guess,              \* the last valid guess
    info,               \* the argument of the last show_status call
    out,                \* the lines printed by the last step
    retries,            \* invalid lines read at the current prompt (capped)
    rounds,             \* history: attempts used by each finished round
    round_start,        \* history: the counters when the round began
    rounds_started,     \* history: number of targets drawn
    final_reports       \* history: number of final show_status calls

vars == << pc, score, total_attempts, win_streak, play_game,
           game_over_reason, number, attempts_in_round, guessed, tries,
           guess, info, out, retries, rounds, round_start, rounds_started,
           final_reports >>

\* Names not yet bound by the script are given the value 0 / <<>> / FALSE.
Init ==
    /\ pc = "ask_play"
    /\ score = 0
    /\ total_attempts = 0
    /\ win_streak = 0
    /\ play_game = <<>>
    /\ game_over_reason = ""
    /\ number = 0
    /\ attempts_in_round = 0
    /\ guessed = FALSE
    /\ tries = 0
    /\ guess = 0
    /\ info = [final |-> FALSE]
    /\ out = << Msg("welcome") >>
    /\ retries = 0
    /\ rounds = <<>>
    /\ round_start = [score |-> 0, total_attempts |-> 0, win_streak |-> 0]
    /\ rounds_started = 0
    /\ final_reports = 0

\* Lines 142-146: the first prompt, the default reason, the first loop test.
AskPlay ==
    /\ pc = "ask_play"
    /\ \E line \in YesNoLines :
         LET r == YesNoTable[line]
         IN  IF r.returns
                THEN /\ play_game' = r.value
                     /\ game_over_reason' = "exit"
                     /\ pc' = while_test(r.value)
                     /\ out' = <<>>
                     /\ retries' = 0
                ELSE /\ retries' = Min(retries + 1, MaxRetries)
                     /\ out' = r.printed
                     /\ UNCHANGED << play_game, game_over_reason, pc >>
    /\ UNCHANGED << score, total_attempts, win_streak, number,
                    attempts_in_round, guessed, tries, guess, info, rounds,
                    round_start, rounds_started, final_reports >>

\* Lines 147-149: the target is drawn and the round's variables are reset.
StartRound ==
    /\ pc = "round_start"
    /\ \E n \in 1..10 : number' = n
    /\ attempts_in_round' = 0
    /\ guessed' = FALSE
    /\ tries' = 0
    /\ pc' = "guess"
    /\ out' = <<>>
    /\ round_start' = [score |-> score, total_attempts |-> total_attempts,
                       win_streak |-> win_streak]
    /\ rounds_started' = rounds_started + 1
    /\ UNCHANGED << score, total_attempts, win_streak, play_game,
                    game_over_reason, guess, info, retries, rounds,
                    final_reports >>

\* Lines 152-170: one line read by get_user_guess inside the attempt loop
\* and, when it is a valid guess, the rest of that pass of the loop.
Guess ==
    /\ pc = "guess"
    /\ \E line \in GuessLines :
         LET r  == GuessTable[line]
             s0 == [score |-> score, total_attempts |-> total_attempts,
                    win_streak |-> win_streak,
                    attempts_in_round |-> attempts_in_round,
                    guessed |-> guessed]
             s1 == count_attempt(s0)
             s2 == IF r.value = number THEN on_correct(s1) ELSE s1
         IN  IF r.returns
                THEN /\ guess' = r.value
                     /\ tries' = tries + 1
                     /\ score' = s2.score
                     /\ total_attempts' = s2.total_attempts
                     /\ win_streak' = s2.win_streak
                     /\ attempts_in_round' = s2.attempts_in_round
                     /\ guessed' = s2.guessed
                     /\ retries' = 0
                     /\ IF r.value = number
                        THEN /\ info' = ongoing_info(s2.score, s2.win_streak)
                             /\ out' = << Msg("correct") >>
                                       \o show_status(info')
                             /\ pc' = "round_end"
                        ELSE /\ out' = << Msg(hint(r.value, number)) >>
                             /\ pc' = IF loop_continues(tries + 1) THEN "guess"
                                      ELSE "round_end"
                             /\ UNCHANGED info
                ELSE /\ retries' = Min(retries + 1, MaxRetries)
                     /\ out' = r.printed
                     /\ UNCHANGED << guess, tries, attempts_in_round,
                                     total_attempts, score, win_streak, guessed,
                                     info, pc >>
    /\ UNCHANGED << play_game, game_over_reason, number, rounds, round_start,
                    rounds_started, final_reports >>

\* Lines 172-182: after the attempt loop.
RoundEnd ==
    /\ pc = "round_end"
    /\ rounds' = Append(rounds, attempts_in_round)
    /\ LET r == after_round(guessed, number, win_streak, game_over_reason)
       IN  /\ win_streak' = r.win_streak
           /\ game_over_reason' = r.game_over_reason
           /\ pc' = r.pc
           /\ out' = r.out
    /\ UNCHANGED << score, total_attempts, play_game, number,
                    attempts_in_round, guessed, tries, guess, info, retries,
                    round_start, rounds_started, final_reports >>

\* Lines 185-187 and the loop test of line 146.
AskAgain ==
    /\ pc = "ask_again"
    /\ \E line \in YesNoLines :
         LET r == YesNoTable[line]
         IN  IF r.returns
                THEN /\ play_game' = r.value
                     /\ game_over_reason' =
                           IF r.value = NO THEN "exit" ELSE game_over_reason
                     /\ pc' = while_test(r.value)
                     /\ out' = <<>>
                     /\ retries' = 0
                ELSE /\ retries' = Min(retries + 1, MaxRetries)
                     /\ out' = r.printed
                     /\ UNCHANGED << play_game, game_over_reason, pc >>
    /\ UNCHANGED << score, total_attempts, win_streak, number,
                    attempts_in_round, guessed, tries, guess, info, rounds,
                    round_start, rounds_started, final_reports >>

\* Lines 190-196: the final summary; the script ends after it.
FinalReport ==
    /\ pc = "final"
    /\ info' = final_info(game_over_reason, score, total_attempts,
                          win_streak)
    /\ out' = show_status(info')
    /\ final_reports' = final_reports + 1
    /\ pc' = "done"
    /\ UNCHANGED << score, total_attempts, win_streak, play_game,
                    game_over_reason, number, attempts_in_round, guessed,
                    tries, guess, retries, rounds, round_start,
                    rounds_started >>

Next ==
    \/ AskPlay
    \/ StartRound
    \/ Guess
    \/ RoundEnd
    \/ AskAgain
    \/ FinalReport

Spec == Init /\ [][Next]_vars

\* A step of the script other than the rejection of an invalid line: a
\* valid line read at a prompt, or the code between two prompts.
Progress == Next /\ retries' = 0

\* The rejection of an invalid line: the prompt is repeated.
Retry == Next /\ retries' > 0

\* The script runs on when it can, and every prompt is in the end given a
\* valid line.
LiveSpec == Spec /\ WF_vars(Progress)

----------------------------------------------------------------------------
\* show_status and progress_bar called on their own, with any dictionary
\* within the bounds, also those the main flow never builds.

FinalInfos ==
    [ final : {TRUE},
      reason : {"win5", "lost", "exit", "5 consecutive wins achieved"},
      score : 0..MaxCount,
      total_attempts : 0..MaxCount,
      win_streak : 0..MaxStreak ]

OngoingInfos == [ score : 0..MaxCount, win_streak : 0..MaxStreak ]

StatusInit ==
    /\ pc = "status_call"
    /\ \/ info \in FinalInfos
       \/ info \in OngoingInfos
    /\ out = <<>>
    /\ score = 0
    /\ total_attempts = 0
    /\ win_streak = 0
    /\ play_game = <<>>
    /\ game_over_reason = ""
    /\ number = 0
    /\ attempts_in_round = 0
    /\ guessed = FALSE
    /\ tries = 0
    /\ guess = 0
    /\ retries = 0
    /\ rounds = <<>>
    /\ round_start = [score |-> 0, total_attempts |-> 0, win_streak |-> 0]
    /\ rounds_started = 0
    /\ final_reports = 0

ShowStatus ==
    /\ pc = "status_call"
    /\ out' = show_status(info)
    /\ pc' = "status_shown"
    /\ UNCHANGED << score, total_attempts, win_streak, play_game,
                    game_over_reason, number, attempts_in_round, guessed,
                    tries, guess, info, retries, rounds, round_start,
                    rounds_started, final_reports >>

StatusNext == ShowStatus

StatusSpec == StatusInit /\ [][StatusNext]_vars

----------------------------------------------------------------------------
\* Properties.

HasMsg(o, m) == \E i \in 1..Len(o) : o[i].msg = m

RECURSIVE Sum(_)
Sum(q) == IF q = <<>> THEN 0 ELSE Head(q) + Sum(Tail(q))

\* C1: when the session has ended with the streak at 5, the final report
\* was given the reason show_status knows as the champion's ("win5") and
\* printed the congratulation with the final score and the total attempts,
\* and no streak bar.
C1_ChampionReport ==
    (pc = "done" /\ win_streak >= 5) =>
        /\ info.reason = "win5"
        /\ HasMsg(out, "congratulations")
        /\ \E i \in 1..Len(out) :
              /\ out[i].msg = "final_score"
              /\ out[i].a = score
              /\ out[i].b = total_attempts
        /\ ~HasMsg(out, "streak_progress")

\* C2: once a win has brought the streak to 5 the script stands after the
\* attempt loop, before the final report or at its end: never at a play
\* prompt, a round start or a guess prompt; and past the check of the
\* streak the reason is that of the five wins.
C2_ChampionEndsAtOnce ==
    win_streak >= 5 =>
        /\ pc \in {"round_end", "final", "done"}
        /\ guessed
        /\ retries = 0
        /\ pc # "round_end" =>
              game_over_reason = "5 consecutive wins achieved"

C2_Witness ==
    pc = "done" /\ win_streak = 5 /\ rounds_started = 5 /\ final_reports = 1

\* C3: after three wrong guesses in a round the script goes to the final
\* report only, with reason "lost" and the streak 0, whatever the streak
\* was when the round began.
C3_LostEndsSession ==
    (tries = 3 /\ ~guessed) =>
        /\ pc \in {"round_end", "final", "done"}
        /\ pc # "round_end" =>
              /\ game_over_reason = "lost"
              /\ win_streak = 0
        /\ pc = "done" =>
              /\ info.reason = "lost"
              /\ info.win_streak = 0
              /\ final_reports = 1

C3_Witness ==
    /\ pc = "done"
    /\ tries = 3 /\ ~guessed
    /\ round_start.win_streak = 4
    /\ info.reason = "lost" /\ info.win_streak = 0

\* C4: every step that changes win_streak is either the correct guess of a
\* round, which adds 1, or the resolution of a lost round, which sets it to
\* 0; a won round always adds 1 and a lost round always leaves 0.
C4_StreakChanges ==
    [][ /\ win_streak' # win_streak =>
              \/ /\ pc = "guess" /\ ~guessed /\ guessed'
                 /\ guess' = number
                 /\ win_streak' = win_streak + 1
              \/ /\ pc = "round_end" /\ ~guessed
                 /\ win_streak' = 0
        /\ (~guessed /\ guessed') => win_streak' = win_streak + 1
        /\ (pc = "round_end" /\ ~guessed) => win_streak' = 0
      ]_vars

C4_Witness ==
    /\ pc = "final" /\ game_over_reason = "lost"
    /\ round_start.win_streak = 3 /\ win_streak = 0

\* C5: total_attempts never decreases; during a round it is the sum of the
\* attempts of the finished rounds plus those of the round, and between
\* rounds and at the end it is the sum of the attempts of all rounds, the
\* lost one included, each between 1 and 3.
C5_TotalAttempts ==
    /\ [][total_attempts' >= total_attempts]_vars
    /\ [](/\ \A i \in 1..Len(rounds) : rounds[i] \in 1..3
          /\ Len(rounds) \in {rounds_started - 1, rounds_started}
          /\ IF Len(rounds) = rounds_started
             THEN total_attempts = Sum(rounds)
             ELSE total_attempts = Sum(rounds) + attempts_in_round)

C5_Witness ==
    /\ pc = "done" /\ game_over_reason = "lost"
    /\ rounds = <<2, 1, 3>> /\ total_attempts = 6

\* C6: the final report is made once, at the end, with the reason and the
\* counters as they are, and no step follows it.
C6_OneFinalReport ==
    /\ [](pc = "done" =>
            /\ final_reports = 1
            /\ info = [final |-> TRUE, reason |-> game_over_reason,
                       score |-> score, total_attempts |-> total_attempts,
                       win_streak |-> win_streak])
    /\ [](pc # "done" => final_reports = 0)
    /\ [][pc # "done"]_vars

C6_Witness ==
    /\ pc = "done" /\ final_reports = 1
    /\ info.final /\ info.score = 2 /\ info.total_attempts = 5

\* C7: a "no" at the first prompt leads straight to the final report: no
\* round is started, no target drawn, the reason is "exit", the counters
\* are 0 and the report prints the farewell line alone.
C7_NoAtFirstPrompt ==
    /\ [][(pc = "ask_play" /\ play_game' = NO) =>
            /\ pc' = "final"
            /\ game_over_reason' = "exit"
            /\ number' = 0 /\ rounds_started' = 0
            /\ score' = 0 /\ total_attempts' = 0 /\ win_streak' = 0
         ]_vars
    /\ []((rounds_started = 0 /\ play_game = NO) =>
            /\ pc \in {"final", "done"}
            /\ number = 0
            /\ score = 0 /\ total_attempts = 0 /\ win_streak = 0
            /\ pc = "done" =>
                  /\ info.reason = "exit"
                  /\ out = << Msg("exited") >>)

C7_Witness ==
    /\ pc = "done" /\ rounds_started = 0 /\ play_game = NO
    /\ out = << Msg("exited") >>

\* C8: a final report with reason "exit" prints the score line and the
\* streak bar exactly when total_attempts > 0; after a "no" to "Play
\* again?" it prints the farewell, the score with the attempts, and the bar
\* of the streak.
C8_ExitReport ==
    (pc = "done" /\ info.reason = "exit") =>
        /\ HasMsg(out, "final_score") <=> total_attempts > 0
        /\ HasMsg(out, "streak_progress") <=> total_attempts > 0
        /\ rounds_started > 0 =>
              /\ guessed /\ win_streak < 5 /\ play_game = NO
              /\ out = << Msg("exited"),
                          Line("final_score", score, total_attempts, <<>>),
                          Line("streak_progress", win_streak, 5,
                               progress_bar(win_streak, 5, 10)) >>

C8_Witness ==
    /\ pc = "done" /\ info.reason = "exit"
    /\ total_attempts > 0 /\ win_streak = 2
    /\ HasMsg(out, "final_score") /\ HasMsg(out, "streak_progress")

\* C9: a counted guess g against the target t wins the round exactly when
\* g = t, prints "Higher" exactly when g < t and "Lower" exactly when
\* g > t.
C9_AttemptOutcome ==
    [][ total_attempts' # total_attempts =>
            /\ guess' \in 1..10 /\ number \in 1..10
            /\ guessed' <=> guess' = number
            /\ HasMsg(out', "correct") <=> guess' = number
            /\ HasMsg(out', "higher") <=> guess' < number
            /\ HasMsg(out', "lower") <=> guess' > number
      ]_vars

C9_Witness ==
    /\ pc = "guess" /\ tries = 2 /\ retries = 0
    /\ guess = 10 /\ number = 9 /\ HasMsg(out, "lower")

\* C10: a round won on its k-th guess has added 1 to score, 1 to
\* win_streak and k to total_attempts; with the streak below 5 the next
\* step leads to the "Play again?" prompt with the counters unchanged.
C10_WonRound ==
    /\ []((guessed /\ pc \in {"round_end", "ask_again"}) =>
            /\ attempts_in_round \in 1..3
            /\ tries = attempts_in_round
            /\ score = round_start.score + 1
            /\ win_streak = round_start.win_streak + 1
            /\ total_attempts = round_start.total_attempts + attempts_in_round)
    /\ [][(pc = "round_end" /\ guessed /\ win_streak < 5) =>
            /\ pc' = "ask_again"
            /\ UNCHANGED << score, total_attempts, win_streak >>
         ]_vars
    /\ []((rounds_started = 1 /\ guessed /\ attempts_in_round = 3
           /\ pc \in {"round_end", "ask_again"}) =>
            /\ score = 1 /\ win_streak = 1 /\ total_attempts = 3)

C10_Witness ==
    /\ pc = "ask_again" /\ rounds_started = 1 /\ attempts_in_round = 3
    /\ score = 1 /\ win_streak = 1 /\ total_attempts = 3

\* The lines of the model sorted by hand: what each should be taken for.
ExpectedYes == { <<"y","e","s">>, <<" ","Y","E","S"," ">> }

ExpectedNo == { <<"n","o">>, <<"N","o","\t">> }

ExpectedGuess ==
    { << <<"1">>, 1 >>, << <<"2">>, 2 >>, << <<"3">>, 3 >>, << <<"4">>, 4 >>,
      << <<"5">>, 5 >>, << <<"6">>, 6 >>, << <<"7">>, 7 >>, << <<"8">>, 8 >>,
      << <<"9">>, 9 >>, << <<"1","0">>, 10 >>,
      << <<" ","7"," ">>, 7 >>, << <<"+","3">>, 3 >> }

ExpectedOutOfRange == { <<"0">>, <<"1","1">>, <<"-","2">> }

ExpectedNotANumber == { <<>>, <<"a","b">>, <<"3",".","5">> }

ErrorPrinted(o) ==
    \/ HasMsg(o, "invalid_choice")
    \/ HasMsg(o, "enter_1_to_10")
    \/ HasMsg(o, "enter_a_number")

\* The validators take each line of the model for what it is.
ValidatorsClassify ==
    /\ \A l \in YesNoLines :
          /\ YesNoTable[l].returns <=> l \in ExpectedYes \cup ExpectedNo
          /\ l \in ExpectedYes => YesNoTable[l].value = <<"y","e","s">>
          /\ l \in ExpectedNo => YesNoTable[l].value = <<"n","o">>
          /\ ~YesNoTable[l].returns =>
                YesNoTable[l].printed = << Msg("invalid_choice") >>
    /\ \A l \in GuessLines :
          /\ GuessTable[l].returns <=> \E p \in ExpectedGuess : p[1] = l
          /\ \A p \in ExpectedGuess :
                p[1] = l => GuessTable[l].value = p[2]
          /\ l \in ExpectedOutOfRange <=>
                GuessTable[l].printed = << Msg("enter_1_to_10") >>
          /\ l \in ExpectedNotANumber <=>
                GuessTable[l].printed = << Msg("enter_a_number") >>

\* C11: an invalid line (no yes/no after strip and lower, no integer, an
\* integer outside 1..10) is rejected with its message, and the step that
\* rejects it stays at the same prompt and leaves the counters, the
\* round's attempts and target and the reason as they were; a counted
\* guess is always in 1..10 and an answer taken is always "yes" or "no".
C11_InvalidInputRetries ==
    /\ []ValidatorsClassify
    /\ [][ErrorPrinted(out') =>
            /\ pc \in {"ask_play", "guess", "ask_again"}
            /\ pc' = pc
            /\ retries' > 0
            /\ UNCHANGED << score, total_attempts, win_streak,
                            attempts_in_round, tries, number, guess, guessed,
                            play_game, game_over_reason, rounds,
                            rounds_started, final_reports >>
         ]_vars
    /\ [][total_attempts' # total_attempts \/ tries' > tries =>
            /\ guess' \in 1..10
            /\ ~ErrorPrinted(out')
         ]_vars
    /\ [][(pc \in {"ask_play", "ask_again"} /\ pc' # pc) =>
            /\ play_game' \in { <<"y","e","s">>, <<"n","o">> }
            /\ ~ErrorPrinted(out')
         ]_vars

C11_Witness ==
    /\ pc = "guess" /\ retries > 0 /\ HasMsg(out, "enter_1_to_10")
    /\ tries = 1 /\ attempts_in_round = 1 /\ total_attempts = 4
    /\ score = 1

\* The number of leading elements of q equal to c.
RECURSIVE Leading(_, _)
Leading(q, c) ==
    IF q # <<>> /\ Head(q) = c THEN 1 + Leading(Tail(q), c) ELSE 0

C13_AttemptLoop ==
    /\ [](/\ attempts_in_round \in 0..3
          /\ tries = attempts_in_round
          /\ pc = "guess" =>
                /\ ~guessed
                /\ attempts_in_round < 3
                /\ number \in 1..10)
    /\ [][(/\ pc = "guess"
           /\ attempts_in_round' = attempts_in_round + 1
           /\ guess' # number
           /\ attempts_in_round' < 3) =>
            /\ pc' = "guess"
            /\ ~guessed'
            /\ number' = number
            /\ rounds_started' = rounds_started
         ]_vars
    /\ [][pc = "guess" =>
            (pc' # "guess" <=> (guessed' \/ attempts_in_round' = 3))
         ]_vars
    /\ [][(pc = "guess" /\ pc' # "guess") => pc' = "round_end"]_vars

C13_Witness ==
    /\ pc = "guess" /\ attempts_in_round = 2 /\ ~guessed
    /\ rounds_started = 2 /\ guess # number /\ retries = 0

\* C14: a wrong valid guess adds 1 to total_attempts and to the round's
\* attempts and leaves score, win_streak and the target alone; an answer to
\* a play prompt leaves score, total_attempts and win_streak alone, "yes"
\* leads to a new round, which begins with 0 attempts, and "no" to the
\* final report.
C14_Frame ==
    /\ [][(pc = "guess" /\ tries' = tries + 1 /\ guess' # number) =>
            /\ total_attempts' = total_attempts + 1
            /\ attempts_in_round' = attempts_in_round + 1
            /\ UNCHANGED << score, win_streak, number, guessed >>
         ]_vars
    /\ [][(pc \in {"ask_play", "ask_again"}) =>
            /\ UNCHANGED << score, total_attempts, win_streak >>
            /\ (pc' # pc /\ play_game' = <<"y","e","s">>) =>
                  pc' = "round_start"
            /\ (pc' # pc /\ play_game' = <<"n","o">>) => pc' = "final"
         ]_vars
    /\ [][pc = "round_start" =>
            /\ pc' = "guess"
            /\ attempts_in_round' = 0
            /\ rounds_started' = rounds_started + 1
            /\ UNCHANGED << score, total_attempts, win_streak >>
         ]_vars

C14_Witness ==
    /\ pc = "guess" /\ rounds_started = 2 /\ play_game = <<"y","e","s">>
    /\ attempts_in_round = 1 /\ guess # number
    /\ score = 1 /\ win_streak = 1 /\ total_attempts = 3

\* C15: the step of a correct guess prints "Correct!" and then the ongoing
\* report, once, with the score and the streak already incremented, and
\* goes on to the code after the loop; no other step prints the ongoing
\* report, so it is on the screen only right after a correct guess.
C15_OngoingReport ==
    /\ [][IF ~guessed /\ guessed'
          THEN /\ pc = "guess" /\ guess' = number
               /\ score' = score + 1 /\ win_streak' = win_streak + 1
               /\ out' = << Msg("correct"),
                            Line("score_so_far", score', 0, <<>>),
                            Line("streak_progress", win_streak', 5,
                                 progress_bar(win_streak', 5, 10)) >>
               /\ pc' = "round_end"
          ELSE ~HasMsg(out', "score_so_far")
         ]_vars
    /\ [](HasMsg(out, "score_so_far") =>
            /\ pc = "round_end" /\ guessed /\ guess = number
            /\ score = round_start.score + 1)

C15_Witness ==
    /\ pc = "round_end" /\ guessed /\ score = 3 /\ win_streak = 3
    /\ Len(out) = 3 /\ out[2].msg = "score_so_far" /\ out[2].a = 3
    /\ out[3].msg = "streak_progress" /\ out[3].a = 3

\* A final report with reason "lost", for any streak handed to it: the
\* "game over" line and the score line are printed, and the bar exactly
\* when the streak is below 5.
LostReportLines ==
    \A k \in 0..MaxStreak :
        LET o == show_status([final |-> TRUE, reason |-> "lost", score |-> 2,
                              total_attempts |-> 6, win_streak |-> k])
        IN  /\ o[1] = Msg("game_over")
            /\ o[2] = Line("final_score", 2, 6, <<>>)
            /\ HasMsg(o, "streak_progress") <=> k < 5
            /\ o[Len(o)] = Msg("better_luck")

\* C16: see LostReportLines for the report by itself; in the program the
\* streak is reset before the report, so the final report of every lost
\* session is given win_streak 0 and prints "game over", the score with
\* the total attempts, the bar "[----------] 0/5" and the closing line.
C16_LostReport ==
    /\ LostReportLines
    /\ (pc = "done" /\ info.reason = "lost") =>
          /\ info.win_streak = 0
          /\ info.score = score /\ info.total_attempts = total_attempts
          /\ out = << Msg("game_over"),
                      Line("final_score", score, total_attempts, <<>>),
                      Line("streak_progress", 0, 5,
                           << "[", "-", "-", "-", "-", "-", "-", "-", "-",
                              "-", "-", "]", " ", "0", "/", "5" >>),
                      Msg("better_luck") >>

C16_Witness ==
    /\ pc = "done" /\ info.reason = "lost" /\ info.win_streak = 0
    /\ round_start.win_streak = 2 /\ score = 2
    /\ HasMsg(out, "streak_progress") /\ HasMsg(out, "game_over")

\* C17: until a lost round is resolved win_streak equals score; after it
\* win_streak is 0 and score is the number of rounds won before the loss;
\* the final report shows the same; score never exceeds total_attempts.
C17_StreakIsScore ==
    /\ score <= total_attempts
    /\ game_over_reason # "lost" => win_streak = score
    /\ game_over_reason = "lost" =>
          /\ win_streak = 0
          /\ score = rounds_started - 1
          /\ score = round_start.win_streak
    /\ pc = "done" =>
          /\ info.reason # "lost" => info.score = info.win_streak
          /\ info.reason = "lost" =>
                /\ info.win_streak = 0
                /\ info.score = rounds_started - 1

C17_Witness ==
    /\ pc = "done" /\ info.reason = "lost"
    /\ info.score = 3 /\ info.win_streak = 0 /\ rounds_started = 4

\* C18: the session is bounded: at most 5 rounds are started, score and
\* win_streak stay at most 5 and total_attempts at most 15.
C18_Bounded ==
    /\ score \in 0..5
    /\ win_streak \in 0..5
    /\ rounds_started \in 0..5
    /\ Len(rounds) <= 5
    /\ total_attempts \in 0..15

C18_Witness ==
    /\ pc = "done" /\ rounds_started = 5 /\ total_attempts = 15
    /\ score = 5 /\ win_streak = 5 /\ play_game = <<"y","e","s">>

\* C19: when every prompt is in the end given a valid line the script
\* reaches its end and makes the final report; and at every prompt an
\* invalid line may be read again, whatever the number of invalid lines
\* already read there, so without that assumption the prompt can be
\* repeated for ever.
C19_Terminates ==
    /\ <>(pc = "done" /\ final_reports = 1)
    /\ [](pc \in {"ask_play", "guess", "ask_again"} => ENABLED Retry)
    /\ [][retries' > 0 => pc' = pc]_vars

C19_Witness ==
    /\ pc = "done" /\ final_reports = 1 /\ rounds_started = 5
    /\ total_attempts = 15

====
